---- MODULE Spec2Model ----
(***************************************************************************)
(* Model of the monthly projection engine of the forecast package          *)
(* (src/forecast/forecast.py) and of the driver loop that invokes it       *)
(* (src/forecast/main.py).                                                 *)
(*                                                                         *)
(* Numbers.  Every money amount and rate of the program is a Python float, *)
(* a binary floating-point number rounded to nearest, ties to even, after  *)
(* every operation.  The model keeps that arithmetic and narrows only the  *)
(* significand: a float is a record [m, e] standing for m * 2^e with       *)
(* 2^(MantBits-1) <= |m| < 2^MantBits (or m = 0, e = 0), and each          *)
(* operation rounds its exact result to MantBits bits.  The exponent is    *)
(* unbounded: the range of a double (1e308) is never approached.           *)
(* A float division by zero raises ZeroDivisionError in Python; the model  *)
(* carries it as a distinguished value that every operation propagates,    *)
(* and the engine stops with pc = "fault" as soon as one is produced.      *)
(***************************************************************************)
EXTENDS Integers, Sequences, FiniteSets, TLC

\* Width of the significand of the modelled float (53 in a Python float).
MantBits == 13

\* Months per year: the literal 12 of forecast.py.
MonthsPerYear == 12

Abs(n) == IF n < 0 THEN -n ELSE n

Sgn(n) == IF n < 0 THEN -1 ELSE IF n > 0 THEN 1 ELSE 0

RECURSIVE BitLen(_)
BitLen(n) == IF n = 0 THEN 0 ELSE 1 + BitLen(n \div 2)

Zero == [m |-> 0, e |-> 0]

\* The exception raised by a float division by zero.
ZeroDivisionError == [m |-> 0, e |-> 1]

\* The absent management fee (rental_management_percentage_fee = None).
None == [m |-> 0, e |-> 2]

IsFault(x) == x = ZeroDivisionError

\* The float nearest to M * 2^E (round to nearest, ties to even).
RoundFloat(M, E) ==
    IF M = 0 THEN Zero
    ELSE LET a == Abs(M)
             L == BitLen(a)
         IN  IF L <= MantBits
             THEN [m |-> M * 2^(MantBits - L), e |-> E - (MantBits - L)]
             ELSE LET s    == L - MantBits
                      q    == a \div 2^s
                      r    == a % 2^s
                      half == 2^(s - 1)
                      up   == r > half \/ (r = half /\ q % 2 = 1)
                      q1   == IF up THEN q + 1 ELSE q
                  IN  IF q1 = 2^MantBits
                      THEN [m |-> Sgn(M) * 2^(MantBits - 1), e |-> E + s + 1]
                      ELSE [m |-> Sgn(M) * q1, e |-> E + s]

\* int -> float, as Python converts an int operand of a float operation.
FromInt(n) == RoundFloat(n, 0)

One == FromInt(1)

FNeg(a) == IF IsFault(a) THEN a ELSE [m |-> -a.m, e |-> a.e]

\* a + b
FAdd(a, b) ==
    IF IsFault(a) \/ IsFault(b) THEN ZeroDivisionError
    ELSE IF a.m = 0 THEN b
    ELSE IF b.m = 0 THEN a
    ELSE LET hi == IF a.e >= b.e THEN a ELSE b
             lo == IF a.e >= b.e THEN b ELSE a
             d  == hi.e - lo.e
         IN  IF d > MantBits + 1 THEN hi
             ELSE RoundFloat(hi.m * 2^d + lo.m, lo.e)

\* a - b
FSub(a, b) == FAdd(a, FNeg(b))

\* a * b
FMul(a, b) ==
    IF IsFault(a) \/ IsFault(b) THEN ZeroDivisionError
    ELSE RoundFloat(a.m * b.m, a.e + b.e)

\* a / b; raises ZeroDivisionError when b is zero (0.0 / 0.0 included).
FDiv(a, b) ==
    IF IsFault(a) \/ IsFault(b) THEN ZeroDivisionError
    ELSE IF b.m = 0 THEN ZeroDivisionError
    ELSE IF a.m = 0 THEN Zero
    ELSE LET n      == Abs(a.m) * 2^(MantBits + 1)
             q      == n \div Abs(b.m)
             sticky == IF n % Abs(b.m) = 0 THEN 0 ELSE 1
         IN  RoundFloat(Sgn(a.m) * Sgn(b.m) * (2 * q + sticky),
                        a.e - b.e - MantBits - 2)

\* x ** n for an int n >= 0 (x ** 0 is 1.0 for every x), by squaring.
RECURSIVE FPow(_, _)
FPow(x, n) ==
    IF IsFault(x) THEN ZeroDivisionError
    ELSE IF n = 0 THEN One
    ELSE LET h == FPow(x, n \div 2)
             sq == FMul(h, h)
         IN  IF n % 2 = 1 THEN FMul(sq, x) ELSE sq

\* a <= b
FLe(a, b) == FSub(a, b).m <= 0

\* a < b
FLt(a, b) == FSub(a, b).m < 0

\* The largest significand in lo..hi whose float, raised to the 12th power,
\* does not exceed x (bisection; FPow is monotone).
RECURSIVE Root12Search(_, _, _)
Root12Search(x, lo, hi) ==
    IF lo = hi THEN lo
    ELSE LET mid == (lo + hi + 1) \div 2
         IN  IF FLe(FPow([m |-> mid, e |-> 1 - MantBits], MonthsPerYear), x)
             THEN Root12Search(x, mid, hi)
             ELSE Root12Search(x, lo, mid - 1)

\* x ** (1 / 12) for 1 <= x < 4096: the float in [1, 2) found by Root12Search.
FRoot12(x) ==
    [m |-> Root12Search(x, 2^(MantBits - 1), 2^MantBits - 1), e |-> 1 - MantBits]

\* The float of the decimal literal n / d.
Dec(n, d) == FDiv(FromInt(n), FromInt(d))

\* calculate_bond_repayment with the growth factor left out of the numerator.
calculate_bond_repayment_NoGrowth(principal, r, n) ==
    LET r_monthly == FDiv(r, FromInt(MonthsPerYear))
        growth    == FPow(FAdd(One, r_monthly), n)
    IN  FDiv(FMul(principal, r_monthly), FSub(growth, One))

\* calculate_bond_repayment(principal, r, n)
calculate_bond_repayment(principal, r, n) ==
    LET r_monthly == FDiv(r, FromInt(MonthsPerYear))
        growth    == FPow(FAdd(One, r_monthly), n)
    IN  FDiv(FMul(FMul(principal, r_monthly), growth), FSub(growth, One))

\* calculate_remaining_bond_balance counting one payment too many.
calculate_remaining_bond_balance_OneMore(principal, rate, n_payments, monthly_payment_amount) ==
    LET monthly_rate == FDiv(rate, FromInt(MonthsPerYear))
        growth       == FPow(FAdd(One, monthly_rate), n_payments + 1)
    IN  FSub(FMul(principal, growth),
             FDiv(FMul(monthly_payment_amount, FSub(growth, One)), monthly_rate))

\* calculate_remaining_bond_balance(principal, rate, n_payments, monthly_payment_amount)
calculate_remaining_bond_balance(principal, rate, n_payments, monthly_payment_amount) ==
    LET monthly_rate == FDiv(rate, FromInt(MonthsPerYear))
        growth       == FPow(FAdd(One, monthly_rate), n_payments)
    IN  FSub(FMul(principal, growth),
             FDiv(FMul(monthly_payment_amount, FSub(growth, One)), monthly_rate))

\* _calculate_net_monthly_rental_income(monthly_rental_income, fee)
calculate_net_monthly_rental_income(monthly_rental_income, rental_management_percentage_fee) ==
    IF rental_management_percentage_fee # None
    THEN FSub(monthly_rental_income,
              FMul(rental_management_percentage_fee, monthly_rental_income))
    ELSE monthly_rental_income

\* The value a variable of a frame holds before the frame assigns it.
Unset == Zero

(***************************************************************************)
(* Inputs.  The assumptions the driver passes are drawn from small sets    *)
(* around the baseline of main.py; every rate is non-negative,             *)
(* property_valuation >= deposit >= 0, n_years > 0 and bond_term > 0.      *)
(* bond_rate = 0 is in the set: it is the input on which the amortization  *)
(* formulas divide by zero.  Every other rate r of the sets is large       *)
(* enough for 1 + r/12 to differ from 1 in MantBits bits, as any rate      *)
(* above 1e-15 is in a Python float.                                       *)
(***************************************************************************)

\* Longest projection horizon, in years.
MaxYears == 3

\* Most invocations of one parameter sweep.
MaxCalls == 3

IncomeSurplusValues == {FromInt(30000), FromInt(15900)}

InvestmentRateValues == {Zero, Dec(85, 1000)}

BondRateValues == {Zero, Dec(5, 100), Dec(96, 1000)}

BondTermValues == {1, 20}

DepositValues == {Zero, FromInt(300000)}

FeeValues == {None, Dec(1, 10)}

\* property_appreciation_rate, property_sale_commission_rate, inflation_rate
MarketValues ==
    { [appreciation |-> Zero, commission |-> Zero, inflation |-> Zero],
      [appreciation |-> Dec(1, 10), commission |-> Dec(5, 100),
       inflation |-> Dec(6, 100)] }

\* rental_escalation_rate, property_expenses_escalation_rate
EscalationValues ==
    { [rental |-> Zero, expenses |-> Zero],
      [rental |-> Dec(5, 100), expenses |-> Dec(5, 100)],
      [rental |-> Zero, expenses |-> Dec(5, 100)] }

\* InvestmentAssumptions(**kwargs) with the fields that vary filled in.
InvestmentAssumptions(surplus, irate, brate, term, deposit, years, market, esc, fee) ==
    [ income_surplus                    |-> surplus,
      investment_rate                   |-> irate,
      property_valuation                |-> FromInt(3000000),
      bond_rate                         |-> brate,
      bond_term                         |-> term,
      monthly_insurance                 |-> FromInt(500),
      monthly_taxes                     |-> FromInt(1500),
      monthly_levies                    |-> FromInt(2000),
      transfer_duty                     |-> FromInt(70000),
      lawyer_fees                       |-> FromInt(70000),
      property_appreciation_rate        |-> market.appreciation,
      deposit                           |-> deposit,
      n_years                           |-> years,
      monthly_rental_income             |-> FromInt(15000),
      property_sale_commission_rate     |-> market.commission,
      rental_escalation_rate            |-> esc.rental,
      property_expenses_escalation_rate |-> esc.expenses,
      inflation_rate                    |-> market.inflation,
      rental_management_percentage_fee  |-> fee ]

\* The assumptions a single invocation may be given.
BaselineInputs ==
    { InvestmentAssumptions(s, ir, br, t, d, y, mk, es, f) :
        s \in IncomeSurplusValues, ir \in InvestmentRateValues,
        br \in BondRateValues, t \in BondTermValues, d \in DepositValues,
        y \in 1..MaxYears, mk \in MarketValues, es \in EscalationValues,
        f \in FeeValues }

\* kwargs of main.py with one field overridden per sweep value (the deposit
\* sweep of main.py, over a two-year horizon).
SweepInputs ==
    { InvestmentAssumptions(FromInt(30000), Dec(85, 1000), Dec(96, 1000), 20, d, 2,
                            [appreciation |-> Dec(1, 10), commission |-> Dec(5, 100),
                             inflation |-> Dec(6, 100)],
                            [rental |-> Dec(5, 100), expenses |-> Dec(5, 100)],
                            Dec(1, 10)) :
        d \in {Zero, FromInt(250000), FromInt(500000)} }

\* Inputs of the amortization functions applied on their own: any principal
\* (zero and negative included), any rate, any payment amount, any term up
\* to MaxTerm months.
MaxTerm == 24

AmortPrincipals == {Zero, FromInt(1), FromInt(2700000), FromInt(-5000)}

AmortRates == {Zero, Dec(1, 100), Dec(96, 1000), FromInt(12), Dec(-5, 100)}

AmortPayments == {Zero, FromInt(25000), FromInt(-1)}

VARIABLES
    mode,           \* "baseline": the single call of main.py; "sweep": the driver
                    \* loop; "amortization": the two amortization functions alone
    amort,          \* arguments and results of the amortization functions alone
    pc,             \* "idle", "setup", "loop", "fault"
    passed,         \* the assumptions passed so far, one per invocation
    forecasts,      \* the ForecastScenario records returned so far
    assumptions,    \* the argument of the current invocation
    label,
    n_months,
    i,              \* the loop variable of range(1, n_months)
    bond_repayment,
    monthly_property_expenses,
    monthly_rental_income,
    net_monthly_rental_income,
    monthly_investment_after_expenses,
    outstanding_bond_balance,
    monthly_inflation_rate,
    property_valuations,
    investment_after_expenses_total_value,
    property_total_value,
    investment_total_value,
    property_total_value_real,
    investment_total_value_real,
    warnings        \* the values logged by logger.warning, in order

driver == <<mode, passed, forecasts>>

scalars == <<n_months, bond_repayment, monthly_property_expenses,
             monthly_rental_income, net_monthly_rental_income,
             monthly_investment_after_expenses, outstanding_bond_balance,
             monthly_inflation_rate>>

series == <<property_valuations, investment_after_expenses_total_value,
            property_total_value, investment_total_value,
            property_total_value_real, investment_total_value_real>>

engine == <<pc, assumptions, label, i, scalars, series, warnings>>

vars == <<driver, amort, engine>>

Last(s) == s[Len(s)]

\* n_months = assumptions.n_years * 12
NMonths(a) == a.n_years * MonthsPerYear

\* The operands of the subtraction swapped.
LoanPrincipal_Swapped(a) == FSub(a.deposit, a.property_valuation)

\* assumptions.property_valuation - assumptions.deposit
LoanPrincipal(a) == FSub(a.property_valuation, a.deposit)

\* The running expenses kept from the previous invocation, as a module-level
\* variable would keep them.
InitialPropertyExpenses_Stale(a) ==
    IF monthly_property_expenses = Unset
    THEN FAdd(FAdd(a.monthly_insurance, a.monthly_taxes), a.monthly_levies)
    ELSE monthly_property_expenses

\* monthly_insurance + monthly_taxes + monthly_levies
InitialPropertyExpenses(a) ==
    FAdd(FAdd(a.monthly_insurance, a.monthly_taxes), a.monthly_levies)

\* The surplus clamped at zero.
InvestmentAfterExpenses_Clamped(a, net, repayment, expenses) ==
    LET x == FSub(FSub(FAdd(a.income_surplus, net), repayment), expenses)
    IN  IF FLe(x, Zero) THEN Zero ELSE x

\* income_surplus + net_monthly_rental_income - bond_repayment - monthly_property_expenses
InvestmentAfterExpenses(a, net, repayment, expenses) ==
    FSub(FSub(FAdd(a.income_surplus, net), repayment), expenses)

\* The deposit withdrawn instead of added.
Compound_Withdraw(previous, rate, deposit) ==
    FSub(FMul(previous, FAdd(One, FDiv(rate, FromInt(MonthsPerYear)))), deposit)

\* previous * (1 + rate / 12) + deposit
Compound(previous, rate, deposit) ==
    FAdd(FMul(previous, FAdd(One, FDiv(rate, FromInt(MonthsPerYear)))), deposit)

\* (1 - commission) * (valuation + cash - balance)
PropertyTotalValue(a, valuation, cash, balance) ==
    FMul(FSub(One, a.property_sale_commission_rate),
         FSub(FAdd(valuation, cash), balance))

\* Escalation one month late: at months 1, 13, 25, ...
EscalationDue_Late(k) == k % MonthsPerYear = 1

\* Escalation one month early: at months 11, 23, 35, ...
EscalationDue_Early(k) == (k + 1) % MonthsPerYear = 0

\* i % 12 == 0
EscalationDue(k) == k % MonthsPerYear = 0

\* range(1, n_months + 1): one month too many.
InRange_Inclusive(k, n) == k <= n

\* range(1, n_months - 1): one month too few.
InRange_Short(k, n) == k < n - 1

\* the condition of `for i in range(1, n_months)` to run the body for i = k
InRange(k, n) == k < n

\* monthly_investment_after_expenses <= 0
WarningDue(x) == FLe(x, Zero)

BaselineInit ==
    /\ pc = "idle"
    /\ passed = <<>>
    /\ forecasts = <<>>
    /\ assumptions = [n_years |-> 0]
    /\ label = ""
    /\ i = 0
    /\ n_months = 0
    /\ bond_repayment = Unset
    /\ monthly_property_expenses = Unset
    /\ monthly_rental_income = Unset
    /\ net_monthly_rental_income = Unset
    /\ monthly_investment_after_expenses = Unset
    /\ outstanding_bond_balance = Unset
    /\ monthly_inflation_rate = Unset
    /\ property_valuations = <<>>
    /\ investment_after_expenses_total_value = <<>>
    /\ property_total_value = <<>>
    /\ investment_total_value = <<>>
    /\ property_total_value_real = <<>>
    /\ investment_total_value_real = <<>>
    /\ warnings = <<>>

NoAmort ==
    [step |-> "off", principal |-> Zero, rate |-> Zero, n |-> 0, k |-> 0,
     payment |-> Zero, balance |-> Zero]

\* main.py: the baseline forecast, one invocation.
Init == mode = "baseline" /\ amort = NoAmort /\ BaselineInit

\* main.py: a parameter sweep through generate_and_plot_forecasts.
SweepInit == mode = "sweep" /\ amort = NoAmort /\ BaselineInit

\* The amortization functions on arguments of their own.
AmortInit ==
    /\ mode = "amortization"
    /\ BaselineInit
    /\ \E p \in AmortPrincipals, r \in AmortRates, n \in 1..MaxTerm :
         amort = [NoAmort EXCEPT !.step = "args", !.principal = p, !.rate = r, !.n = n]

CallsAllowed == IF mode = "baseline" THEN 1 ELSE MaxCalls

Inputs == IF mode = "baseline" THEN BaselineInputs ELSE SweepInputs

\* forecast_investment_values(InvestmentAssumptions(...), label=...) is called.
Call ==
    /\ pc = "idle"
    /\ Len(passed) < CallsAllowed
    /\ \E a \in Inputs :
         /\ assumptions' = a
         /\ passed' = Append(passed, a)
    /\ label' = IF mode = "baseline" THEN "Baseline" ELSE "sweep"
    /\ pc' = "setup"
    /\ UNCHANGED <<mode, amort, forecasts, i, scalars, series, warnings>>

\* forecast_investment_values up to the loop.
Setup ==
    /\ pc = "setup"
    /\ LET a         == assumptions
           repayment == calculate_bond_repayment(LoanPrincipal(a), a.bond_rate,
                                                 a.bond_term * MonthsPerYear)
           expenses  == InitialPropertyExpenses(a)
           costs     == FAdd(a.transfer_duty, a.lawyer_fees)
           net       == calculate_net_monthly_rental_income(
                            a.monthly_rental_income, a.rental_management_percentage_fee)
           after     == InvestmentAfterExpenses(a, net, repayment, expenses)
           balance   == calculate_remaining_bond_balance(LoanPrincipal(a), a.bond_rate,
                                                         0, repayment)
           ptv       == PropertyTotalValue(a, a.property_valuation, after, balance)
           itv       == FAdd(FAdd(a.income_surplus, costs), a.deposit)
       IN  IF IsFault(repayment) \/ IsFault(balance)
           THEN /\ pc' = "fault"
                /\ UNCHANGED <<i, scalars, series>>
           ELSE /\ pc' = "loop"
                /\ i' = 1
                /\ n_months' = NMonths(a)
                /\ bond_repayment' = repayment
                /\ monthly_property_expenses' = expenses
                /\ monthly_rental_income' = a.monthly_rental_income
                /\ net_monthly_rental_income' = net
                /\ monthly_investment_after_expenses' = after
                /\ outstanding_bond_balance' = balance
                /\ monthly_inflation_rate' =
                       FSub(FRoot12(FAdd(One, a.inflation_rate)), One)
                /\ property_valuations' = <<a.property_valuation>>
                /\ investment_after_expenses_total_value' = <<after>>
                /\ property_total_value' = <<ptv>>
                /\ investment_total_value' = <<itv>>
                /\ property_total_value_real' = <<ptv>>
                /\ investment_total_value_real' = <<itv>>
    /\ UNCHANGED <<driver, amort, assumptions, label, warnings>>

\* One pass of the loop body, for the current i.
Month ==
    /\ pc = "loop"
    /\ InRange(i, n_months)
    /\ LET a         == assumptions
           valuation == FMul(Last(property_valuations),
                             FAdd(One, FDiv(a.property_appreciation_rate,
                                            FromInt(MonthsPerYear))))
           cash      == Compound(Last(investment_after_expenses_total_value),
                                 a.investment_rate, monthly_investment_after_expenses)
           balance   == calculate_remaining_bond_balance(LoanPrincipal(a), a.bond_rate,
                                                         i, bond_repayment)
           ptv       == PropertyTotalValue(a, valuation, cash, balance)
           expenses  == FMul(monthly_property_expenses,
                             FAdd(One, a.property_expenses_escalation_rate))
           rental    == FMul(monthly_rental_income, FAdd(One, a.rental_escalation_rate))
           net       == calculate_net_monthly_rental_income(
                            rental, a.rental_management_percentage_fee)
           after     == InvestmentAfterExpenses(a, net, bond_repayment, expenses)
           stocks    == Compound(Last(investment_total_value), a.investment_rate,
                                 a.income_surplus)
           inflation_adjustment == FPow(FAdd(One, monthly_inflation_rate), i)
       IN  IF IsFault(balance)
           THEN /\ pc' = "fault"
                /\ UNCHANGED <<i, scalars, series, warnings>>
           ELSE /\ pc' = "loop"
                /\ i' = i + 1
                /\ property_valuations' = Append(property_valuations, valuation)
                /\ investment_after_expenses_total_value' =
                       Append(investment_after_expenses_total_value, cash)
                /\ outstanding_bond_balance' = balance
                /\ property_total_value' = Append(property_total_value, ptv)
                /\ IF EscalationDue(i)
                   THEN /\ monthly_property_expenses' = expenses
                        /\ monthly_rental_income' = rental
                        /\ net_monthly_rental_income' = net
                        /\ monthly_investment_after_expenses' = after
                        /\ warnings' = IF WarningDue(after)
                                       THEN Append(warnings, after) ELSE warnings
                   ELSE UNCHANGED <<monthly_property_expenses, monthly_rental_income,
                                    net_monthly_rental_income,
                                    monthly_investment_after_expenses, warnings>>
                /\ investment_total_value' = Append(investment_total_value, stocks)
                /\ property_total_value_real' =
                       Append(property_total_value_real, FDiv(ptv, inflation_adjustment))
                /\ investment_total_value_real' =
                       Append(investment_total_value_real,
                              FDiv(stocks, inflation_adjustment))
                /\ UNCHANGED <<n_months, bond_repayment, monthly_inflation_rate>>
    /\ UNCHANGED <<driver, amort, assumptions, label>>

\* The loop is over: the ForecastScenario is returned to the driver, which keeps it.
Return ==
    /\ pc = "loop"
    /\ ~InRange(i, n_months)
    /\ forecasts' = Append(forecasts,
                           [label             |-> label,
                            property_values   |-> property_total_value_real,
                            investment_values |-> investment_total_value_real])
    /\ pc' = "idle"
    /\ UNCHANGED <<mode, amort, passed, assumptions, label, i, scalars, series, warnings>>

Next == Call \/ Setup \/ Month \/ Return

\* payment = calculate_bond_repayment(principal, rate, n)
AmortRepayment ==
    /\ amort.step = "args"
    /\ LET payment == calculate_bond_repayment(amort.principal, amort.rate, amort.n)
       IN  amort' = IF IsFault(payment)
                    THEN [amort EXCEPT !.step = "repayment-fault"]
                    ELSE [amort EXCEPT !.step = "computed", !.payment = payment]
    /\ UNCHANGED <<driver, engine>>

\* any payment amount, chosen by the caller
AmortAnyPayment ==
    /\ amort.step = "args"
    /\ \E x \in AmortPayments : amort' = [amort EXCEPT !.step = "chosen", !.payment = x]
    /\ UNCHANGED <<driver, engine>>

\* balance = calculate_remaining_bond_balance(principal, rate, k, payment)
AmortBalance ==
    /\ amort.step \in {"computed", "chosen"}
    /\ \E k \in 0..amort.n :
         LET balance == calculate_remaining_bond_balance(amort.principal, amort.rate,
                                                         k, amort.payment)
         IN  amort' = IF IsFault(balance)
                      THEN [amort EXCEPT !.step = "balance-fault", !.k = k]
                      ELSE [amort EXCEPT !.step = amort.step \o "-balance", !.k = k,
                                         !.balance = balance]
    /\ UNCHANGED <<driver, engine>>

AmortNext == AmortRepayment \/ AmortAnyPayment \/ AmortBalance

Spec == Init /\ [][Next]_vars

SweepSpec == SweepInit /\ [][Next]_vars

AmortSpec == AmortInit /\ [][AmortNext]_vars

(***************************************************************************)
(* Properties.                                                             *)
(***************************************************************************)

\* An invocation has been made: assumptions holds its argument.
Invoked == passed # <<>>

\* n_years > 0, bond_term > 0, bond_rate > 0
ValidAssumptions(a) == a.n_years > 0 /\ a.bond_term > 0 /\ FLt(Zero, a.bond_rate)

\* Both series of the k-th returned scenario have n_years * 12 entries.
FullLength(k) ==
    /\ Len(forecasts[k].property_values) = passed[k].n_years * 12
    /\ Len(forecasts[k].investment_values) = passed[k].n_years * 12

\* x escalated k times at rate: x * (1 + rate) * ... * (1 + rate).
RECURSIVE EscalatedBy(_, _, _)
EscalatedBy(x, rate, k) ==
    IF k = 0 THEN x ELSE FMul(EscalatedBy(x, rate, k - 1), FAdd(One, rate))

FAbs(x) == [m |-> Abs(x.m), e |-> x.e]

\* C1: for valid assumptions (n_years > 0, bond_term > 0, bond_rate > 0) the
\* invocation does not fault, and a returned scenario has property_values and
\* investment_values of length exactly n_years * 12 each.
C1_SeriesLength ==
    /\ \A k \in 1..Len(forecasts) : FullLength(k)
    /\ pc = "fault" => ~ValidAssumptions(assumptions)
    /\ pc = "loop" /\ ~(i < n_months) =>
           /\ Len(property_total_value_real) = assumptions.n_years * 12
           /\ Len(investment_total_value_real) = assumptions.n_years * 12

C1_Witness ==
    /\ Len(forecasts) = 1
    /\ ValidAssumptions(passed[1])
    /\ passed[1].n_years = MaxYears
    /\ Len(forecasts[1].property_values) = MaxYears * 12

\* C2: after the months 1..i-1 of the loop the running property expenses and
\* the running rental income are their initial values escalated once per
\* multiple of 12 among those months, (i-1) div 12 times: unchanged between
\* multiples of 12, multiplied by 1 + rate at each, compounding.
C2_EscalationOnlyAtYearEnds ==
    pc = "loop" =>
        /\ monthly_property_expenses =
               EscalatedBy(FAdd(FAdd(assumptions.monthly_insurance,
                                     assumptions.monthly_taxes),
                                assumptions.monthly_levies),
                           assumptions.property_expenses_escalation_rate,
                           (i - 1) \div 12)
        /\ monthly_rental_income =
               EscalatedBy(assumptions.monthly_rental_income,
                           assumptions.rental_escalation_rate, (i - 1) \div 12)

C2_Witness ==
    /\ pc = "loop"
    /\ i = 26
    /\ assumptions.property_expenses_escalation_rate # Zero
    /\ assumptions.rental_escalation_rate # Zero
    /\ monthly_property_expenses =
           FMul(FMul(FromInt(4000), Dec(105, 100)), Dec(105, 100))
    /\ monthly_rental_income # assumptions.monthly_rental_income

\* C3: an invocation either returns both series with all n_years * 12 entries
\* or faults on a division by zero of the amortization formulas and returns
\* nothing; the series under construction is never returned short.
C3_FullSeriesOrFault ==
    /\ \A k \in 1..Len(forecasts) : FullLength(k)
    /\ pc = "idle" => Len(forecasts) = Len(passed)
    /\ pc = "fault" =>
           /\ Len(forecasts) = Len(passed) - 1
           /\ assumptions.bond_rate = Zero
    /\ pc \in {"setup", "loop"} => Len(forecasts) = Len(passed) - 1
    /\ pc = "loop" => i <= n_months /\ Len(property_total_value_real) = i

C3_Witness ==
    /\ pc = "fault"
    /\ assumptions.bond_rate = Zero
    /\ forecasts = <<>>

\* C4: a surplus recomputed as <= 0 at an escalation is logged and nothing
\* else: the invocation does not fault, the value is kept unclamped, it is the
\* deposit into the property-side cash accumulator in the following months,
\* and the scenario returned has full length.
C4_NegativeSurplusOnlyWarns ==
    /\ pc = "loop" /\ i > 12 /\ FLe(monthly_investment_after_expenses, Zero) =>
           /\ warnings # <<>>
           /\ Last(warnings) = monthly_investment_after_expenses
           /\ monthly_investment_after_expenses =
                  FSub(FSub(FAdd(assumptions.income_surplus, net_monthly_rental_income),
                            bond_repayment),
                       monthly_property_expenses)
           /\ (i - 1) % 12 # 0 =>
                  investment_after_expenses_total_value[i] =
                      FAdd(FMul(investment_after_expenses_total_value[i - 1],
                                FAdd(One, FDiv(assumptions.investment_rate, FromInt(12)))),
                           monthly_investment_after_expenses)
    /\ warnings # <<>> =>
           /\ pc # "fault"
           /\ \A k \in 1..Len(forecasts) : FullLength(k)
           /\ pc = "idle" => Len(forecasts) = Len(passed)

C4_Witness ==
    /\ pc = "idle"
    /\ Len(forecasts) = 1
    /\ Len(warnings) = 2
    /\ FLt(Head(investment_after_expenses_total_value), Zero) = FALSE
    /\ FLt(monthly_investment_after_expenses, Zero)
    /\ FLt(Last(investment_after_expenses_total_value),
           investment_after_expenses_total_value[Len(investment_after_expenses_total_value) - 1])

\* investment_rate, inflation_rate, the appreciation rate, both escalation
\* rates and the commission rate are 0.
OtherRatesZero(a) ==
    /\ a.investment_rate = Zero
    /\ a.inflation_rate = Zero
    /\ a.property_appreciation_rate = Zero
    /\ a.rental_escalation_rate = Zero
    /\ a.property_expenses_escalation_rate = Zero
    /\ a.property_sale_commission_rate = Zero

\* investment_total_value[k] >= investment_total_value[k-1] throughout.
NonDecreasing(s) == \A k \in 2..Len(s) : FLe(s[k - 1], s[k])

\* C5 as stated: with all rates 0, bond_rate included, and a positive
\* income_surplus the invocation produces a non-decreasing nominal
\* pure-investment series.
C5_AsStated ==
    Invoked /\ pc # "setup" /\ OtherRatesZero(assumptions)
            /\ assumptions.bond_rate = Zero /\ FLt(Zero, assumptions.income_surplus) =>
        /\ pc # "fault"
        /\ investment_total_value # <<>>
        /\ NonDecreasing(investment_total_value)

\* C5, amended: with all rates other than bond_rate at 0, bond_rate > 0 and a
\* positive income_surplus the invocation does not fault and its nominal
\* pure-investment series is non-decreasing month over month.
C5_NonDecreasingInvestment ==
    Invoked /\ pc # "setup" /\ OtherRatesZero(assumptions)
            /\ FLt(Zero, assumptions.bond_rate) /\ FLt(Zero, assumptions.income_surplus) =>
        /\ pc # "fault"
        /\ investment_total_value # <<>>
        /\ NonDecreasing(investment_total_value)
        /\ pc = "idle" => Len(investment_total_value) = assumptions.n_years * 12

C5_Witness ==
    /\ pc = "idle"
    /\ Len(forecasts) = 1
    /\ OtherRatesZero(assumptions)
    /\ FLt(Zero, assumptions.bond_rate)
    /\ Len(investment_total_value) = MaxYears * 12
    /\ FLt(Head(investment_total_value), Last(investment_total_value))

\* C6: with deposit = 0 and otherwise valid assumptions the invocation does not
\* fault, the principal of the repayment and of every remaining-balance
\* computation is the full property_valuation, and the scenario returned has
\* full length.
C6_ZeroDeposit ==
    Invoked /\ assumptions.deposit = Zero /\ ValidAssumptions(assumptions) =>
        /\ pc # "fault"
        /\ pc = "loop" =>
               /\ bond_repayment =
                      calculate_bond_repayment(assumptions.property_valuation,
                                               assumptions.bond_rate,
                                               assumptions.bond_term * 12)
               /\ outstanding_bond_balance =
                      calculate_remaining_bond_balance(assumptions.property_valuation,
                                                       assumptions.bond_rate, i - 1,
                                                       bond_repayment)
        /\ pc = "idle" => Len(forecasts) = Len(passed) /\ FullLength(Len(forecasts))

C6_Witness ==
    /\ pc = "idle"
    /\ Len(forecasts) = 1
    /\ assumptions.deposit = Zero
    /\ ValidAssumptions(assumptions)
    /\ FullLength(1)
    /\ outstanding_bond_balance # assumptions.property_valuation

\* calculate_remaining_bond_balance has returned for zero payments made.
BalanceAtZero ==
    amort.step \in {"computed-balance", "chosen-balance"} /\ amort.k = 0

\* C7 as stated: calculate_remaining_bond_balance(principal, rate, 0, payment)
\* returns exactly principal for any rate, any principal, any payment amount.
C7_AsStated ==
    /\ BalanceAtZero => amort.balance = amort.principal
    /\ ~(amort.step = "balance-fault" /\ amort.k = 0)

\* C7, amended: for any rate other than 0, any principal and any payment
\* amount calculate_remaining_bond_balance(principal, rate, 0, payment) returns
\* exactly principal; with rate = 0 it raises ZeroDivisionError.
C7_BalanceAtZeroPayments ==
    /\ BalanceAtZero => amort.balance = amort.principal
    /\ amort.step = "balance-fault" => amort.rate = Zero
    /\ amort.step = "chosen-balance" => amort.rate # Zero

C7_Witness ==
    /\ amort.step = "chosen-balance"
    /\ amort.k = 0
    /\ amort.rate = Dec(96, 1000)
    /\ amort.payment = FromInt(25000)
    /\ amort.principal = FromInt(2700000)
    /\ amort.balance = FromInt(2700000)

\* The relative tolerance of the closing balance: 8 units in the last place.
Tolerance == RoundFloat(1, 3 - MantBits)

\* C8: for any principal, any positive rate and any term n > 0 the balance
\* after all n payments of the computed fixed payment is zero within
\* tolerance: at most Tolerance times principal * (1 + rate/12) ** n, the
\* amount the two cancelling terms of the formula have.
C8_BalanceAfterAllPayments ==
    /\ FLt(Zero, amort.rate) => amort.step \notin {"repayment-fault", "balance-fault"}
    /\ amort.step = "computed-balance" /\ amort.k = amort.n /\ FLt(Zero, amort.rate) =>
           FLe(FAbs(amort.balance),
               FMul(Tolerance,
                    FAbs(FMul(amort.principal,
                              FPow(FAdd(One, FDiv(amort.rate, FromInt(12))), amort.n)))))

C8_Witness ==
    /\ amort.step = "computed-balance"
    /\ amort.k = amort.n
    /\ amort.n = MaxTerm
    /\ amort.rate = Dec(96, 1000)
    /\ amort.principal = FromInt(2700000)
    /\ FLt(FromInt(100000), amort.payment)

\* C9: invocations with identical assumptions return identical series,
\* whatever was invoked before or in between, and the assumptions record is
\* the one passed.
C9_Deterministic ==
    /\ \A j, k \in 1..Len(forecasts) :
           passed[j] = passed[k] =>
               /\ forecasts[j].property_values = forecasts[k].property_values
               /\ forecasts[j].investment_values = forecasts[k].investment_values
    /\ Invoked => assumptions = Last(passed)

C9_Witness ==
    /\ Len(forecasts) = 3
    /\ passed[1] = passed[3]
    /\ passed[2] # passed[1]
    /\ forecasts[1] = forecasts[3]
    /\ forecasts[2] # forecasts[1]

\* The monthly investment after expenses after k escalations.
SurplusAfter(a, k, repayment) ==
    FSub(FSub(FAdd(a.income_surplus,
                   calculate_net_monthly_rental_income(
                       EscalatedBy(a.monthly_rental_income, a.rental_escalation_rate, k),
                       a.rental_management_percentage_fee)),
              repayment),
         EscalatedBy(FAdd(FAdd(a.monthly_insurance, a.monthly_taxes), a.monthly_levies),
                     a.property_expenses_escalation_rate, k))

\* C10: the deposit of month j into the property-side cash accumulator, and
\* the property-side total value of month j, use the monthly investment after
\* expenses after (j-1) div 12 escalations: the initial amount in months
\* 1..12, the amount after k escalations in months 12k+1..12k+12; the
\* escalation of month 12k is first deposited in month 12k+1.
C10_DepositBeforeEscalation ==
    pc = "loop" /\ i >= 2 =>
        LET j    == i - 1
            cash == FAdd(FMul(investment_after_expenses_total_value[j],
                              FAdd(One, FDiv(assumptions.investment_rate, FromInt(12)))),
                         SurplusAfter(assumptions, (j - 1) \div 12, bond_repayment))
        IN  /\ investment_after_expenses_total_value[j + 1] = cash
            /\ property_total_value[j + 1] =
                   FMul(FSub(One, assumptions.property_sale_commission_rate),
                        FSub(FAdd(property_valuations[j + 1], cash),
                             outstanding_bond_balance))

C10_Witness ==
    /\ pc = "loop"
    /\ i = 14
    /\ monthly_investment_after_expenses # SurplusAfter(assumptions, 0, bond_repayment)
    /\ investment_after_expenses_total_value[13] =
           FAdd(FMul(investment_after_expenses_total_value[12],
                     FAdd(One, FDiv(assumptions.investment_rate, FromInt(12)))),
                SurplusAfter(assumptions, 0, bond_repayment))
    /\ investment_after_expenses_total_value[14] =
           FAdd(FMul(investment_after_expenses_total_value[13],
                     FAdd(One, FDiv(assumptions.investment_rate, FromInt(12)))),
                monthly_investment_after_expenses)

\* The outstanding balance lies between 0 and the loan principal, to within
\* the rounding of the two cancelling terms of the balance formula (Tolerance
\* times principal * (1 + rate/12) ** k, as for the closing balance).
BalanceInRange ==
    LET principal == FSub(assumptions.property_valuation, assumptions.deposit)
        slack     == FMul(Tolerance,
                          FMul(principal,
                               FPow(FAdd(One, FDiv(assumptions.bond_rate, FromInt(12))),
                                    i - 1)))
    IN  /\ FLe(FNeg(slack), outstanding_bond_balance)
        /\ FLe(outstanding_bond_balance, FAdd(principal, slack))

\* C11: for valid assumptions with bond_rate > 0, at every month index of the
\* projection the outstanding bond balance subtracted in the property-side
\* total value lies between 0 and the loan principal (property_valuation -
\* deposit), also when n_years is longer than bond_term.
C11_BalanceWithinPrincipal ==
    pc = "loop" /\ ValidAssumptions(assumptions) => BalanceInRange

\* Up to the end of the bond term (months 0 .. bond_term * 12) the balance is
\* within the principal; the months past it are the ones that leave the range.
BalanceWithinTerm ==
    pc = "loop" /\ ValidAssumptions(assumptions)
                /\ i - 1 <= assumptions.bond_term * 12 => BalanceInRange
====
